---- MODULE Spec2Model ----
(***************************************************************************)
(* Model of ma_gym/envs/crossover/crossover_new.py, class CrossOver.       *)
(*                                                                         *)
(* Python values are modelled as follows.                                  *)
(*   - a position [row, col] is the tuple <<row, col>>;                    *)
(*   - a numpy grid of shape (2, 8) is a function on Cells; reading or     *)
(*     writing it goes through NpIndex, which wraps negative indices and   *)
(*     fails (IndexError) on an index outside the axis, as numpy does;     *)
(*   - a Python list (rewards, _agent_dones, the action list) is a         *)
(*     sequence, element k of the list being element k + 1 of the sequence;*)
(*   - the dict agent_pos is a function on the agent ids 0 .. 3;           *)
(*   - the value None of _step_count is the integer None (-1);             *)
(*   - an attribute that an instance does not have yet is absent from the  *)
(*     set attrs, and reading it is an AttributeError;                     *)
(*   - a raised exception is the name of its class in the field err of the *)
(*     result of an operator, "ok" meaning a normal return.  A method that *)
(*     raises keeps every assignment it made before the raise.             *)
(***************************************************************************)
EXTENDS Integers, Sequences, FiniteSets

\* ---------------------------------------------------------------- constants
Rows == 2
Cols == 8
n_agents == 4
max_steps == 100
n_actions == 5
GoalReward == 5
NumColors == 2
None == -1

\* ------------------------------------------------------------------- bounds
\* largest number of step calls explored after a reset call
MaxCalls == 2
\* longest action list handed to step
MaxLen == 5

Agents == 0 .. (n_agents - 1)
Cells == (0 .. (Rows - 1)) \X (0 .. (Cols - 1))

\* the constructor argument step_cost: the default and a penalty
StepCosts == {0, -1}

\* a start table in which agent 1 is given the start cell of agent 0 (row 0
\* written for row 2)
init_agent_pos_clash ==
    [i \in Agents |->
        CASE i = 0 -> <<0, 1>>
          [] i = 1 -> <<0, 1>>
          [] i = 2 -> <<0, Cols - 2>>
          [] OTHER -> <<2, Cols - 2>>]

init_agent_pos ==
    [i \in Agents |->
        CASE i = 0 -> <<0, 1>>
          [] i = 1 -> <<2, 1>>
          [] i = 2 -> <<0, Cols - 2>>
          [] OTHER -> <<2, Cols - 2>>]

final_agent_pos ==
    [i \in Agents |->
        CASE i = 0 -> <<0, Cols - 1>>
          [] i = 1 -> <<2, Cols - 1>>
          [] i = 2 -> <<0, 0>>
          [] OTHER -> <<2, 0>>]

\* ------------------------------------------------------------ numpy indexing
\* index i on an axis of size n: the effective index, or None when numpy
\* raises IndexError
NpIndex(i, n) ==
    IF 0 <= i /\ i < n THEN i
    ELSE IF (0 - n) <= i /\ i < 0 THEN i + n
    ELSE None

NpCell(pos) == <<NpIndex(pos[1], Rows), NpIndex(pos[2], Cols)>>

NpInRange(pos) == NpIndex(pos[1], Rows) # None /\ NpIndex(pos[2], Cols) # None

\* grid[pos[0], pos[1]] = v
NpSet(grid, pos, v) ==
    IF NpInRange(pos)
    THEN [err |-> "ok", grid |-> [grid EXCEPT ![NpCell(pos)] = v]]
    ELSE [err |-> "IndexError", grid |-> grid]

\* ---------------------------------------------------------------- the grid
create_grid ==
    LET walls == [p \in Cells |-> -1]
        road  == [p \in Cells |-> IF p[1] = Rows \div 2 THEN 0 ELSE walls[p]]
        left  == [p \in Cells |-> IF p[2] \in {0, 1} THEN 0 ELSE road[p]]
    IN  [p \in Cells |->
            IF p[2] \in {NpIndex(-1, Cols), NpIndex(-2, Cols)} THEN 0 ELSE left[p]]

wall_exists(base, pos) == base[NpCell(pos)] = -1

\* an environment value e is the record of the instance's fields
\*   [step_cost, step_count, agent_pos, full_obs, base_grid, agent_dones, attrs]

is_cell_vacant(e, pos) ==
    LET is_valid == 0 <= pos[1] /\ pos[1] < Rows /\ 0 <= pos[2] /\ pos[2] < Cols
    IN  is_valid /\ e.full_obs[pos] = 0

\* an agent view that marks the cell one column to the right of the agent
update_agent_view_shifted(e, agent_i) ==
    LET pos == e.agent_pos[agent_i]
        w   == NpSet(e.full_obs, <<pos[1], pos[2] + 1>>, agent_i + 1)
    IN  [err |-> w.err, e |-> [e EXCEPT !.full_obs = w.grid]]

update_agent_view(e, agent_i) ==
    LET w == NpSet(e.full_obs, e.agent_pos[agent_i], agent_i + 1)
    IN  [err |-> w.err, e |-> [e EXCEPT !.full_obs = w.grid]]


\* the loop of __init_full_obs over agent_pos.items(), from agent_i upward;
\* it stops at the first assignment that raises
RECURSIVE agent_view_loop(_, _)
agent_view_loop(e, agent_i) ==
    IF agent_i >= n_agents THEN [err |-> "ok", e |-> e]
    ELSE LET r == update_agent_view(e, agent_i)
         IN  IF r.err # "ok" THEN r ELSE agent_view_loop(r.e, agent_i + 1)

\* __draw_base_img: _base_img is assigned first; the walls are looked up on
\* the cells of the grid; the goal outlines then read AGENT_COLORS[agent_i]
\* for every agent of final_agent_pos, and AGENT_COLORS has NumColors entries
draw_base_img(e) ==
    LET e1 == [e EXCEPT !.attrs = @ \cup {"_base_img"}]
    IN  [err |-> IF \A agent_i \in Agents : agent_i < NumColors
                 THEN "ok" ELSE "KeyError",
         e   |-> e1]

init_full_obs(e) ==
    LET e1 == [e EXCEPT !.agent_pos = init_agent_pos, !.full_obs = create_grid]
        r  == agent_view_loop(e1, 0)
    IN  IF r.err # "ok" THEN r ELSE draw_base_img(r.e)

\* get_agent_obs: only whether it raises is modelled.  With n_agents > 0 the
\* division _step_count / _max_steps comes first, then self.full_observable
get_agent_obs(e) ==
    IF n_agents > 0 /\ e.step_count = None THEN "TypeError"
    ELSE IF "full_observable" \notin e.attrs THEN "AttributeError"
    ELSE "ok"

reset(e) ==
    LET r == init_full_obs(e)
    IN  IF r.err # "ok" THEN r
        ELSE LET e2 == [r.e EXCEPT !.step_count = 0,
                                   !.agent_dones = [k \in 1 .. n_agents |-> FALSE],
                                   !.attrs = @ \cup {"_agent_dones"}]
             IN  [err |-> get_agent_obs(e2), e |-> e2]

\* the target cell of a move, <<>> standing for next_pos = None (no-op)
next_pos(curr_pos, move) ==
    CASE move = 0 -> <<curr_pos[1] + 1, curr_pos[2]>>
      [] move = 1 -> <<curr_pos[1], curr_pos[2] - 1>>
      [] move = 2 -> <<curr_pos[1] - 1, curr_pos[2]>>
      [] move = 3 -> <<curr_pos[1], curr_pos[2] + 1>>
      [] OTHER    -> <<>>

update_agent_pos(e, agent_i, move) ==
    LET curr_pos == e.agent_pos[agent_i]
        np       == next_pos(curr_pos, move)
    IN  IF move \notin 0 .. (n_actions - 1) THEN [err |-> "Exception", e |-> e]
        ELSE IF np # <<>> /\ is_cell_vacant(e, np)
        THEN LET e1 == [e EXCEPT !.agent_pos[agent_i] = np]
                 w  == NpSet(e1.full_obs, curr_pos, 0)
             IN  IF w.err # "ok" THEN [err |-> w.err, e |-> e1]
                 ELSE update_agent_view([e1 EXCEPT !.full_obs = w.grid], agent_i)
        ELSE [err |-> "ok", e |-> e]

is_agent_done(e, agent_i) == e.agent_pos[agent_i] = final_agent_pos[agent_i]

\* the loop of step over enumerate(agents_action), from list index k (the
\* agent k - 1) upward; it stops at the first statement that raises
RECURSIVE step_loop(_, _, _, _)
step_loop(e, rewards, agents_action, k) ==
    IF k > Len(agents_action) THEN [err |-> "ok", e |-> e, rewards |-> rewards]
    ELSE LET agent_i == k - 1
             action  == agents_action[k]
         IN  IF "_agent_dones" \notin e.attrs
             THEN [err |-> "AttributeError", e |-> e, rewards |-> rewards]
             ELSE IF agent_i >= Len(e.agent_dones)
             THEN [err |-> "IndexError", e |-> e, rewards |-> rewards]
             ELSE IF ~ e.agent_dones[agent_i + 1]
             THEN LET r == update_agent_pos(e, agent_i, action)
                  IN  IF r.err # "ok"
                      THEN [err |-> r.err, e |-> r.e, rewards |-> rewards]
                      ELSE LET d  == is_agent_done(r.e, agent_i)
                               e2 == [r.e EXCEPT !.agent_dones[agent_i + 1] = d]
                               w  == IF d THEN [rewards EXCEPT ![agent_i + 1] = GoalReward]
                                     ELSE rewards
                           IN  step_loop(e2, w, agents_action, k + 1)
             ELSE step_loop(e, rewards, agents_action, k + 1)

\* a step that counts from 0 when the counter is still None
step_none_as_zero(e, agents_action) ==
    LET e1 == [e EXCEPT !.step_count = IF @ = None THEN 1 ELSE @ + 1]
        l  == step_loop(e1, [k \in 1 .. n_agents |-> e.step_cost], agents_action, 1)
    IN  IF l.err # "ok" THEN [err |-> l.err, e |-> l.e, rewards |-> <<>>]
        ELSE IF l.e.step_count >= max_steps /\ n_agents > 0
                /\ "_agent_dones" \notin l.e.attrs
        THEN [err |-> "AttributeError", e |-> l.e, rewards |-> <<>>]
        ELSE LET e2 == IF l.e.step_count >= max_steps
                       THEN [l.e EXCEPT !.agent_dones = [k \in 1 .. n_agents |-> TRUE]]
                       ELSE l.e
                 g  == get_agent_obs(e2)
             IN  IF g # "ok" THEN [err |-> g, e |-> e2, rewards |-> <<>>]
                 ELSE IF "_agent_dones" \notin e2.attrs
                 THEN [err |-> "AttributeError", e |-> e2, rewards |-> <<>>]
                 ELSE [err |-> "ok", e |-> e2, rewards |-> l.rewards]

\* step returns [err, e, rewards]: rewards is the returned reward list, <<>>
\* when the call raised; the returned done list is e.agent_dones itself
step(e, agents_action) ==
    IF e.step_count = None THEN [err |-> "TypeError", e |-> e, rewards |-> <<>>]
    ELSE
    LET e1 == [e EXCEPT !.step_count = @ + 1]
        l  == step_loop(e1, [k \in 1 .. n_agents |-> e.step_cost], agents_action, 1)
    IN  IF l.err # "ok" THEN [err |-> l.err, e |-> l.e, rewards |-> <<>>]
        ELSE IF l.e.step_count >= max_steps /\ n_agents > 0
                /\ "_agent_dones" \notin l.e.attrs
        THEN [err |-> "AttributeError", e |-> l.e, rewards |-> <<>>]
        ELSE LET e2 == IF l.e.step_count >= max_steps
                       THEN [l.e EXCEPT !.agent_dones = [k \in 1 .. n_agents |-> TRUE]]
                       ELSE l.e
                 g  == get_agent_obs(e2)
             IN  IF g # "ok" THEN [err |-> g, e |-> e2, rewards |-> <<>>]
                 ELSE IF "_agent_dones" \notin e2.attrs
                 THEN [err |-> "AttributeError", e |-> e2, rewards |-> <<>>]
                 ELSE [err |-> "ok", e |-> e2, rewards |-> l.rewards]

\* a constructor that starts the step counter at 0 instead of None
init_counter_zero(cost) ==
    LET e0 == [step_cost   |-> cost,
               step_count  |-> 0,
               agent_pos   |-> init_agent_pos,
               full_obs    |-> create_grid,
               base_grid   |-> create_grid,
               agent_dones |-> <<>>,
               attrs       |-> {}]
        r  == init_full_obs(e0)
    IN  IF r.err # "ok" THEN r
        ELSE [err |-> "ok", e |-> [r.e EXCEPT !.attrs = @ \cup {"viewer", "full_observable"}]]

\* CrossOver.__init__(step_cost = cost): the fields assigned before the call
\* of __init_full_obs, that call, then viewer and full_observable
init(cost) ==
    LET e0 == [step_cost   |-> cost,
               step_count  |-> None,
               agent_pos   |-> init_agent_pos,
               full_obs    |-> create_grid,
               base_grid   |-> create_grid,
               agent_dones |-> <<>>,
               attrs       |-> {}]
        r  == init_full_obs(e0)
    IN  IF r.err # "ok" THEN r
        ELSE [err |-> "ok", e |-> [r.e EXCEPT !.attrs = @ \cup {"viewer", "full_observable"}]]

\* ------------------------------------------------------------------- state
VARIABLES
    step_cost,      \* self._step_cost (line 30)
    step_count,     \* self._step_count, None or a number (lines 29, 86, 128)
    agent_pos,      \* self.agent_pos (lines 64, 115)
    full_obs,       \* self._full_obs, the live grid (lines 39, 65, 116, 122)
    base_grid,      \* self._base_grid (line 38)
    agent_dones,    \* self._agent_dones (lines 87, 134, 140), <<>> while absent
    attrs,          \* which of _agent_dones (line 87), _base_img (line 46),
                    \* viewer (line 41), full_observable (line 43) exist
    last,           \* the last call: [op, args, err, rewards]
    calls,          \* number of step calls since the last reset call
    uniform,        \* every step call since the last reset call had the same action list
    reset_called    \* reset has been called on the instance

envvars == <<step_cost, step_count, agent_pos, full_obs, base_grid, agent_dones, attrs>>
vars == <<step_cost, step_count, agent_pos, full_obs, base_grid, agent_dones, attrs,
          last, calls, uniform, reset_called>>

Env == [step_cost   |-> step_cost,
        step_count  |-> step_count,
        agent_pos   |-> agent_pos,
        full_obs    |-> full_obs,
        base_grid   |-> base_grid,
        agent_dones |-> agent_dones,
        attrs       |-> attrs]

Store(e) ==
    /\ step_cost' = e.step_cost
    /\ step_count' = e.step_count
    /\ agent_pos' = e.agent_pos
    /\ full_obs' = e.full_obs
    /\ base_grid' = e.base_grid
    /\ agent_dones' = e.agent_dones
    /\ attrs' = e.attrs

\* --------------------------------------------------------- the action lists
NoopList == [k \in 1 .. n_agents |-> n_actions - 1]
ValidLists == [1 .. n_agents -> 0 .. (n_actions - 1)]
SameCodeLists == {[k \in 1 .. n_agents |-> c] : c \in 0 .. (n_actions - 1)}
BadCodes == {0 - 1, n_actions}
BadCodeLists ==
    {[a EXCEPT ![k] = b] : a \in SameCodeLists, k \in 1 .. n_agents, b \in BadCodes}
WrongLenLists ==
    UNION {[1 .. n -> {3, n_actions - 1}] : n \in (0 .. MaxLen) \ {n_agents}}
ActionLists == ValidLists \cup BadCodeLists \cup WrongLenLists

\* the valid lists of the long runs: every agent plays the same code, or
\* agent 0 alone moves right
Horizon == max_steps + MaxCalls
RightList == [NoopList EXCEPT ![1] = 3]
EpisodeLists == SameCodeLists \cup {RightList}

\* ----------------------------------------------------------------- actions
\* The instance as __init__ leaves it.  When __init__ raises, the instance
\* keeps the fields assigned up to the raise, and reset and step below are
\* calls on that instance; last.err records how the constructor ended.
Init ==
    \E cost \in StepCosts :
        LET r == init(cost)
        IN  /\ step_cost = r.e.step_cost
            /\ step_count = r.e.step_count
            /\ agent_pos = r.e.agent_pos
            /\ full_obs = r.e.full_obs
            /\ base_grid = r.e.base_grid
            /\ agent_dones = r.e.agent_dones
            /\ attrs = r.e.attrs
            /\ last = [op |-> "init", args |-> <<>>, err |-> r.err, rewards |-> <<>>]
            /\ calls = 0
            /\ uniform = TRUE
            /\ reset_called = FALSE

Reset ==
    LET r == reset(Env)
    IN  /\ Store(r.e)
        /\ last' = [op |-> "reset", args |-> <<>>, err |-> r.err, rewards |-> <<>>]
        /\ calls' = 0
        /\ uniform' = TRUE
        /\ reset_called' = TRUE

StepCall(agents_action, cap) ==
    /\ calls < cap
    /\ LET r == step(Env, agents_action)
       IN  /\ Store(r.e)
           /\ last' = [op |-> "step", args |-> agents_action, err |-> r.err,
                       rewards |-> r.rewards]
    /\ calls' = calls + 1
    /\ uniform' = (uniform /\ (calls = 0 \/ last.args = agents_action))
    /\ UNCHANGED reset_called

Step(agents_action) == StepCall(agents_action, MaxCalls)

EpisodeStep(agents_action) == StepCall(agents_action, Horizon)

Next ==
    \/ Reset
    \/ \E agents_action \in ActionLists : Step(agents_action)

Spec == Init /\ [][Next]_vars

NextEpisode ==
    \/ Reset
    \/ \E agents_action \in EpisodeLists : EpisodeStep(agents_action)

SpecEpisode == Init /\ [][NextEpisode]_vars

\* ------------------------------------------------------------------ claims
\* A claim that states what a step call returns or commits is read as a
\* contract of the call: the call returns (last.err = "ok") and its result is
\* as claimed.  A claim about the states the program reaches (an invariant, a
\* conditional on a flag, a frame condition) is stated of those states alone.

HasDones == "_agent_dones" \in attrs
Done(i) == HasDones /\ agent_dones[i + 1]
\* the state is the result of a step call of an episode begun by reset
EpisodeStepState == reset_called /\ last.op = "step"
Distinct(pos) == \A i, j \in Agents : i # j => pos[i] # pos[j]

\* C1: in every state from a reset call onwards, whatever step calls have
\* been made since, no two agents have the same position, and no cell is the
\* position of more than one agent
C1_UniqueOccupancy ==
    reset_called =>
        /\ Distinct(agent_pos)
        /\ \A p \in Cells :
            Cardinality({i \in Agents : agent_pos[i] = p}) <= 1

\* reset, then step calls with valid action lists in which some agent is told
\* to move, and the agents stand on different positions
C1_Witness ==
    /\ EpisodeStepState /\ calls = MaxCalls
    /\ last.args \in ValidLists /\ last.args # NoopList
    /\ uniform
    /\ Distinct(agent_pos)

\* C2: a step call of an episode returns, for every agent, the reward 5 when
\* the agent's position equals its goal for the first time (it did not before
\* the call and does after it), and the step cost otherwise
C2_RewardRule ==
    [][(reset_called /\ last'.op = "step" /\ last'.args \in ValidLists)
        => (/\ last'.err = "ok"
            /\ \A i \in Agents :
                last'.rewards[i + 1] =
                    IF agent_pos'[i] = final_agent_pos[i]
                       /\ agent_pos[i] # final_agent_pos[i]
                    THEN GoalReward ELSE step_cost)]_vars

\* C3 is a statement about a done entry that has been returned true.  No call
\* creates the done list (line 87 is never reached), so that case is in no
\* reachable state: a done list never exists
NoDoneList == ~ HasDones

\* C4: after max_steps step calls from a reset, and after every further step
\* call, every agent's done flag is true
C4_Truncation ==
    (EpisodeStepState /\ calls >= max_steps)
        => (HasDones /\ \A i \in Agents : agent_dones[i + 1])

\* C5: reset returns and leaves the initial positions, the step counter 0,
\* every done flag false and the base grid with the four start cells marked
C5_ResetRestores ==
    last.op = "reset"
        => (/\ last.err = "ok"
            /\ agent_pos = init_agent_pos
            /\ step_count = 0
            /\ HasDones /\ \A i \in Agents : ~ agent_dones[i + 1]
            /\ \A i \in Agents : init_agent_pos[i] \in Cells
            /\ \A p \in Cells :
                full_obs[p] = IF \E i \in Agents : init_agent_pos[i] = p
                              THEN 1 + CHOOSE i \in Agents : init_agent_pos[i] = p
                              ELSE base_grid[p])

\* C6: after k = 1 .. 6 step calls from a reset, each with agent 0 playing
\* RIGHT and the others NOOP, agent 0 is at (0, 1 + k); its reward is the step
\* cost and its done flag false for k < 6, and 5 and true for k = 6
C6_RightRun ==
    (EpisodeStepState /\ uniform /\ last.args = RightList /\ calls \in 1 .. (Cols - 2))
        => (/\ last.err = "ok"
            /\ agent_pos[0] = <<0, 1 + calls>>
            /\ last.rewards[1] = IF calls = Cols - 2 THEN GoalReward ELSE step_cost
            /\ HasDones /\ agent_dones[1] = (calls = Cols - 2))

\* C7: every cell of row 1 is a wall, and a step call in which a not-done
\* agent of row 0 alone moves, DOWN, returns with that agent where it was and
\* with the step cost as its reward
C7_RowOneWall ==
    [][\A i \in Agents :
        (/\ reset_called /\ last'.op = "step"
         /\ last'.args = [NoopList EXCEPT ![i + 1] = 0]
         /\ agent_pos[i][1] = 0 /\ ~ Done(i))
            => (/\ \A c \in 0 .. (Cols - 1) : wall_exists(base_grid, <<1, c>>)
                /\ last'.err = "ok"
                /\ agent_pos'[i] = agent_pos[i]
                /\ last'.rewards[i + 1] = step_cost)]_vars

\* C8: in a step call in which only the not-done agents i < j move: when both
\* target the same vacant cell, i ends on it and j stays; when j targets the
\* cell i leaves for a vacant cell, j ends on i's old cell; when i targets the
\* cell j leaves for a vacant cell, i stays
OnlyMove(a, i, j) == \A k \in Agents : k \notin {i, j} => a[k + 1] = n_actions - 1
C8_IdOrder ==
    [][\A i, j \in Agents :
        (/\ i < j /\ reset_called /\ last'.op = "step" /\ last'.args \in ValidLists
         /\ OnlyMove(last'.args, i, j) /\ ~ Done(i) /\ ~ Done(j)
         /\ last'.args[i + 1] # n_actions - 1 /\ last'.args[j + 1] # n_actions - 1)
            => LET ti == next_pos(agent_pos[i], last'.args[i + 1])
                   tj == next_pos(agent_pos[j], last'.args[j + 1])
               IN  /\ (ti = tj /\ is_cell_vacant(Env, ti))
                        => (/\ last'.err = "ok"
                            /\ agent_pos'[i] = ti
                            /\ agent_pos'[j] = agent_pos[j])
                   /\ (tj = agent_pos[i] /\ is_cell_vacant(Env, ti))
                        => (last'.err = "ok" /\ agent_pos'[j] = agent_pos[i])
                   /\ (ti = agent_pos[j] /\ is_cell_vacant(Env, tj))
                        => (last'.err = "ok" /\ agent_pos'[i] = agent_pos[i])]_vars

\* C9: a step call whose action list has a length other than n_agents raises,
\* and leaves the step counter, the positions, the live grid and the done
\* flags as they were
C9_WrongLengthFails ==
    [][(last'.op = "step" /\ Len(last'.args) # n_agents)
        => (last'.err # "ok" /\ UNCHANGED envvars)]_vars

\* C9 witness: after a reset, a step call with a list of another length raised
C9_Witness ==
    /\ EpisodeStepState
    /\ Len(last.args) # n_agents
    /\ last.err # "ok"

\* C10: a step call whose list of n_agents actions holds a code outside
\* 0 .. 4 for an agent raises the error of line 112 (Exception, 'Action Not
\* found!'), and leaves that agent's position and grid cell as they were
C10_InvalidAction ==
    [][\A i \in Agents :
        (/\ last'.op = "step" /\ Len(last'.args) = n_agents
         /\ last'.args[i + 1] \notin 0 .. (n_actions - 1))
            => (/\ last'.err = "Exception"
                /\ agent_pos'[i] = agent_pos[i]
                /\ (agent_pos[i] \in Cells
                        => full_obs'[agent_pos[i]] = full_obs[agent_pos[i]]))]_vars

\* C11: a step call on an instance on which reset was never called raises,
\* and leaves the positions, the live grid, the step counter and every other
\* field as they were
C11_StepBeforeReset ==
    [][(~ reset_called /\ last'.op = "step")
        => (last'.err # "ok" /\ UNCHANGED envvars)]_vars

\* C11 witness: a step call with a valid action list was made on an instance
\* that was never reset, and it raised
C11_Witness ==
    /\ ~ reset_called
    /\ last.op = "step"
    /\ last.args \in ValidLists
    /\ last.err = "TypeError"
    /\ step_count = None

\* C12: in every state, from construction onwards, every agent's position is
\* a cell of the grid and the base grid does not mark that cell as wall
C12_PositionsOnGrid ==
    \A i \in Agents :
        agent_pos[i] \in Cells /\ ~ wall_exists(base_grid, agent_pos[i])

\* C13 is a statement about an agent whose done flag is true, and C14 one
\* about the states in which the step counter is a number below max_steps.
\* Neither case is in a reachable state: no agent is ever done, and the step
\* counter is never a number
NoAgentDone == \A i \in Agents : ~ Done(i)
CounterNeverSet == step_count = None

\* C15: once reset has been called, the step counter is a number between 0
\* and max_steps
C15_CounterRange ==
    reset_called => (step_count # None /\ step_count \in 0 .. max_steps)

\* the action list in which agent i plays move m and every other agent NOOP
OneMover(i, m) == [NoopList EXCEPT ![i + 1] = m]

\* C16: a step call of an episode in which only the not-done agent i acts
\* returns; when i's action is a move to a vacant cell, i is on that cell, its
\* old cell is free and the new cell holds its code; when the target is not
\* vacant (off the grid, a wall or occupied) or the action is NOOP, the
\* positions and the whole live grid are as before
C16_MoveRule ==
    [][\A i \in Agents : \A m \in 0 .. (n_actions - 1) :
        (/\ reset_called /\ last'.op = "step"
         /\ last'.args = OneMover(i, m) /\ ~ Done(i))
            => (/\ last'.err = "ok"
                /\ IF m # n_actions - 1
                      /\ is_cell_vacant(Env, next_pos(agent_pos[i], m))
                   THEN /\ agent_pos'[i] = next_pos(agent_pos[i], m)
                        /\ agent_pos[i] \in Cells
                        /\ full_obs'[agent_pos[i]] = 0
                        /\ full_obs'[agent_pos'[i]] = i + 1
                   ELSE /\ agent_pos' = agent_pos
                        /\ full_obs' = full_obs)]_vars

\* C17 is a statement about the resolution of one agent's move inside a step
\* call (lines 98-122).  No step call gets that far: each one raises on line
\* 128 and leaves every attribute of the environment as it was
StepChangesNothing ==
    [][last'.op = "step" => (last'.err = "TypeError" /\ UNCHANGED envvars)]_vars

WallCells(grid) == {p \in Cells : grid[p] = -1}

\* C18: in every state the wall cells of the live grid are the wall cells of
\* the base grid, and the base grid is the grid built at construction
C18_WallsFixed ==
    /\ WallCells(full_obs) = WallCells(base_grid)
    /\ base_grid = create_grid

\* C18 witness: reset has rebuilt the live grid and marked an agent on it, a
\* step call has been made since, and the grid has walls
C18_Witness ==
    /\ EpisodeStepState
    /\ WallCells(full_obs) # {}
    /\ \E p \in Cells : full_obs[p] > 0

\* C19: once reset has been called, the cell at agent i's position holds the
\* code i + 1, and every cell that holds a code k + 1 is agent k's position
C19_GridMatchesPositions ==
    reset_called
        => (/\ \A i \in Agents :
                agent_pos[i] \in Cells /\ full_obs[agent_pos[i]] = i + 1
            /\ \A p \in Cells :
                full_obs[p] > 0
                    => (full_obs[p] - 1 \in Agents /\ agent_pos[full_obs[p] - 1] = p))

\* the instances that step calls with valid action lists that return produce
\* from the instances of S
StepResults(S) ==
    {r.e : r \in {x \in {step(e, a) : e \in S, a \in ValidLists} : x.err = "ok"}}

\* the instances reached from those of S by at most k such step calls
RECURSIVE ReachableBy(_, _)
ReachableBy(S, k) ==
    IF k = 0 THEN S
    ELSE LET N == S \cup StepResults(S)
         IN  IF N = S THEN S ELSE ReachableBy(N, k - 1)

\* every agent is at its goal and done, before the step counter reaches
\* max_steps (so done by arrival, with the reward of line 136)
AllArrived(e) ==
    /\ "_agent_dones" \in e.attrs
    /\ e.step_count # None /\ e.step_count < max_steps
    /\ \A i \in Agents :
        e.agent_pos[i] = final_agent_pos[i] /\ e.agent_dones[i + 1]

\* C20: from the state reset leaves, fewer than max_steps step calls with
\* valid action lists can bring every agent to its goal
C20_Solvable ==
    last.op = "reset"
        => \E e \in ReachableBy({Env}, max_steps - 1) : AllArrived(e)

====
